---------------------------- MODULE Spec2Model ----------------------------
(***************************************************************************)
(* Model of github.com/oiime/inverseschema: the PostgreSQL adapter that    *)
(* reads catalog rows and assembles Table / Column / Constraint / Enum     *)
(* values (postgres.go), and Schema.ParseContext that stores them.         *)
(*                                                                         *)
(* The database is the environment.  A query's answer is a result set:     *)
(* the rows it delivers and the way the delivery ends (see Ends).  SQL     *)
(* NULL scanned into a Go pointer is the value Null; dereferencing it      *)
(* panics.  A Go map is a TLA+ function; ranging over it yields its        *)
(* entries in any order.  A nil slice and an empty slice are both <<>>.    *)
(***************************************************************************)
EXTENDS Integers, Sequences, FiniteSets, TLC

VARIABLES
    pc,          \* parseTable: the statement reached
    table,       \* parseTable: the *Table under assembly
    constraints, \* parseTable: the local `constraints`
    conRows,     \* parseTable: the result set the constraint query delivered
    colRows,     \* parseTableColumns: the result set the column query delivered
    err,         \* parseTable: the error returned ("" is nil)
    cols,        \* parseTableColumns: its outcome
    catalog,     \* the rows the database holds
    schema,      \* Schema.Tables and Schema.Enums
    ret,         \* ParseContext: what the last call returned
    fault,       \* the failure the database injected into the last call
    got          \* what the adapter returned to the last call, and whether the
                 \* call repeated a successful one under the same fault

vars == <<pc, table, constraints, conRows, colRows, err, cols, catalog, schema, ret, fault, got>>

---------------------------------------------------------------------------
(* Bounds of the model *)

MaxColRows == 2

MaxConRows == 2

---------------------------------------------------------------------------
(* types.go *)

ConstraintTypeForeignKey == 2

ConstraintTypePrimaryKey == 3

ConstraintTypeUnique == 4

DatatypeUnknown == 0

DatatypeUserdefined == 1

DatatypeArray == 2

DatatypeBigint == 3

DatatypeInt == 4

DatatypeNumeric == 7

DatatypeJsonb == 9

DatatypeText == 11

DatatypeVarchar == 12

DatatypeBoolean == 13

DatatypeDate == 14

DatatypeTimestamp == 15

DatatypeTimestampz == 16

DatatypeUuid == 17

\* SQL NULL scanned into a pointer: the nil pointer.
Null == "<nil>"

\* The zero Column: every field at its Go zero value.
ZeroColumn ==
    [ OrdinalPosition    |-> 0,
      Name               |-> "",
      Constraints        |-> <<>>,
      IsReference        |-> FALSE,
      ForeignTablename   |-> "",
      ForeignColumnname  |-> "",
      IsPrimary          |-> FALSE,
      IsUnique           |-> FALSE,
      HasDefault         |-> FALSE,
      Default            |-> "",
      IsNullable         |-> FALSE,
      DatatypeRaw        |-> "",
      Datatype           |-> DatatypeUnknown,
      IsUserDefined      |-> FALSE,
      IsArray            |-> FALSE,
      CharacterMaxLength |-> 0,
      UserDefinedType    |-> <<>>,      \* a pointer: <<>> is nil, <<u>> points to u
      Comments           |-> "" ]

---------------------------------------------------------------------------
(* Result sets *)

\* How the delivery of a result set ends:
\*   eof      rows.Next() returns false, rows.Err() is nil
\*   iterErr  rows.Next() returns false, rows.Err() is not nil (connection lost,
\*            context cancelled while the rows are read)
\*   scanErr  rows.Next() returns true and rows.Scan fails
\*   queryErr QueryContext itself fails; no row is delivered
Ends == {"eof", "iterErr", "scanErr", "queryErr"}

ErrQuery == "query failed"

ErrScan == "scan failed"

SeqsUpTo(S, n) == UNION {[1..k -> S] : k \in 0..n}

ResultSets(S, n) ==
    {[rows |-> s, end |-> e] : s \in SeqsUpTo(S, n), e \in Ends \ {"queryErr"}}
        \cup {[rows |-> <<>>, end |-> "queryErr"]}

Range(f) == {f[x] : x \in DOMAIN f}

---------------------------------------------------------------------------
(* postgres.go: the datatype map *)

postgresDatatypemap ==
    ("USER-DEFINED" :> DatatypeUserdefined) @@
    ("ARRAY" :> DatatypeArray) @@
    ("boolean" :> DatatypeBoolean) @@
    ("integer" :> DatatypeInt) @@
    ("bigint" :> DatatypeBigint) @@
    ("numeric" :> DatatypeNumeric) @@
    ("text" :> DatatypeText) @@
    ("character varying" :> DatatypeVarchar) @@
    ("jsonb" :> DatatypeJsonb) @@
    ("uuid" :> DatatypeUuid) @@
    ("date" :> DatatypeDate) @@
    ("timestamp without time zone" :> DatatypeTimestamp) @@
    ("timestamp with time zone" :> DatatypeTimestampz)

\* datatype, ok := postgresDatatypemap[raw]; then DatatypeUnknown unless ok
Classify(raw) ==
    IF raw \in DOMAIN postgresDatatypemap THEN postgresDatatypemap[raw] ELSE DatatypeUnknown

---------------------------------------------------------------------------
(* postgres.go: parseTableColumns *)

\* The body of the row loop dereferences a nil pointer on this row.
ColumnRowPanics(r) ==
    LET outer == Classify(r.datatypeRaw)
    IN  \/ outer = DatatypeUserdefined /\ (r.udtName = Null \/ r.udtSchema = Null)
        \/ /\ outer = DatatypeArray
           /\ \/ r.elementArraytypeRaw = Null
              \/ /\ Classify(r.elementArraytypeRaw) = DatatypeUserdefined
                 /\ (r.elementUdtName = Null \/ r.elementUdtSchema = Null)

\* A slip in the array case: the element type is looked up but the column
\* keeps the outer classification.
ColumnOfRowKeepsArray(r) ==
    LET c == [ZeroColumn EXCEPT !.OrdinalPosition = r.ordinalPosition,
                                !.Name = r.columnName,
                                !.DatatypeRaw = r.datatypeRaw,
                                !.Datatype = Classify(r.datatypeRaw)]
    IN  CASE c.Datatype = DatatypeArray -> [c EXCEPT !.IsArray = TRUE]
          [] c.Datatype = DatatypeUserdefined ->
                [c EXCEPT !.IsUserDefined = TRUE,
                          !.UserDefinedType = <<[Name |-> r.udtName, Schema |-> r.udtSchema]>>]
          [] OTHER -> c

\* The Column the row loop builds from one scanned row.
ColumnOfRow(r) ==
    LET c0 == [ZeroColumn EXCEPT !.OrdinalPosition = r.ordinalPosition,
                                 !.Name = r.columnName,
                                 !.DatatypeRaw = r.datatypeRaw]
        c1 == IF r.comments # Null THEN [c0 EXCEPT !.Comments = r.comments] ELSE c0
        c2 == [c1 EXCEPT !.Datatype = Classify(r.datatypeRaw)]
        c3 == IF r.characterMaximumLength # <<>>
              THEN [c2 EXCEPT !.CharacterMaxLength = r.characterMaximumLength[1]]
              ELSE c2
        c4 == IF r.isNullable # Null /\ r.isNullable = "YES"
              THEN [c3 EXCEPT !.IsNullable = TRUE]
              ELSE c3
        c5 == IF r.columnDefault # Null /\ r.columnDefault # ""
              THEN [c4 EXCEPT !.HasDefault = TRUE, !.Default = r.columnDefault]
              ELSE c4
        c6 == IF c5.Datatype = DatatypeUserdefined
              THEN [c5 EXCEPT !.IsUserDefined = TRUE,
                              !.UserDefinedType = <<[Name |-> r.udtName, Schema |-> r.udtSchema]>>]
              ELSE c5
        c7 == IF c6.Datatype = DatatypeArray
              THEN LET a == [c6 EXCEPT !.IsArray = TRUE,
                                       !.Datatype = Classify(r.elementArraytypeRaw)]
                   IN  IF a.Datatype = DatatypeUserdefined
                       THEN [a EXCEPT !.IsUserDefined = TRUE,
                                      !.UserDefinedType =
                                          <<[Name |-> r.elementUdtName,
                                             Schema |-> r.elementUdtSchema]>>]
                       ELSE a
              ELSE c6
    IN  c7

\* parseTableColumns on the result set rs: [status, cols, err].
\* status "ok": cols, nil.  "err": nil, err.  "panic": a nil dereference.
parseTableColumns(rs) ==
    IF rs.end = "queryErr" THEN [status |-> "err", cols |-> <<>>, err |-> ErrQuery]
    ELSE IF \E i \in DOMAIN rs.rows : ColumnRowPanics(rs.rows[i])
         THEN [status |-> "panic", cols |-> <<>>, err |-> ""]
    ELSE IF rs.end = "scanErr" THEN [status |-> "err", cols |-> <<>>, err |-> ErrScan]
    ELSE [status |-> "ok",
          cols |-> [i \in DOMAIN rs.rows |-> ColumnOfRow(rs.rows[i])],
          err |-> ""]

---------------------------------------------------------------------------
(* postgres.go: parseTableConstraints *)

ConstraintRowPanics(r) ==
    r.columnname = Null \/ r.foreignTablename = Null \/ r.foreignColumnname = Null

ConstraintRowSupported(r) ==
    r.constrainttype \in {"PRIMARY KEY", "FOREIGN KEY", "UNIQUE"}

ErrUnsupported(r) == "unsupported constraint type: " \o r.constrainttype

\* The Constraint the row loop builds from one scanned row.
ConstraintOfRow(tablename, r) ==
    [ Name              |-> r.constraintname,
      Tablename         |-> tablename,
      Columnname        |-> r.columnname,
      ForeignTablename  |-> r.foreignTablename,
      ForeignColumnname |-> r.foreignColumnname,
      Type              |-> CASE r.constrainttype = "PRIMARY KEY" -> ConstraintTypePrimaryKey
                              [] r.constrainttype = "FOREIGN KEY" -> ConstraintTypeForeignKey
                              [] r.constrainttype = "UNIQUE"      -> ConstraintTypeUnique ]

\* The first row of the result set that ends the loop early, 0 if none.
FirstBadConstraintRow(rows) ==
    LET bad == {i \in DOMAIN rows :
                    ConstraintRowPanics(rows[i]) \/ ~ConstraintRowSupported(rows[i])}
    IN  IF bad = {} THEN 0 ELSE CHOOSE i \in bad : \A j \in bad : i <= j

\* parseTableConstraints on the result set rs: [status, constraints, err].
parseTableConstraints(tablename, rs) ==
    LET b == FirstBadConstraintRow(rs.rows)
    IN  IF rs.end = "queryErr"
        THEN [status |-> "err", constraints |-> <<>>, err |-> ErrQuery]
        ELSE IF b # 0 /\ ConstraintRowPanics(rs.rows[b])
        THEN [status |-> "panic", constraints |-> <<>>, err |-> ""]
        ELSE IF b # 0
        THEN [status |-> "err", constraints |-> <<>>, err |-> ErrUnsupported(rs.rows[b])]
        ELSE IF rs.end = "scanErr"
        THEN [status |-> "err", constraints |-> <<>>, err |-> ErrScan]
        ELSE [status |-> "ok",
              constraints |-> [i \in DOMAIN rs.rows |-> ConstraintOfRow(tablename, rs.rows[i])],
              err |-> ""]

---------------------------------------------------------------------------
(* postgres.go: refrenceConstraints and parseTable *)

\* table.ColumnsByName after `for _, col := range cols { ...[col.Name] = col }`:
\* a later row of the same name overwrites the earlier one.
ColumnsByNameOf(cs) ==
    [n \in {cs[i].Name : i \in DOMAIN cs} |->
        cs[CHOOSE i \in DOMAIN cs :
              cs[i].Name = n /\ \A j \in DOMAIN cs : cs[j].Name = n => j <= i]]

\* A slip in the switch: the unique case sets the primary-key flag.
ApplyConstraintTypeUniqueAsPrimary(col, c) ==
    CASE c.Type = ConstraintTypePrimaryKey -> [col EXCEPT !.IsPrimary = TRUE]
      [] c.Type = ConstraintTypeForeignKey ->
            [col EXCEPT !.IsReference = TRUE,
                        !.ForeignTablename = c.ForeignTablename,
                        !.ForeignColumnname = c.ForeignColumnname]
      [] c.Type = ConstraintTypeUnique -> [col EXCEPT !.IsPrimary = TRUE]
      [] OTHER -> col

\* A slip in the switch: the foreign names are copied only from the first
\* foreign key of a column.
ApplyConstraintTypeFirstForeign(col, c) ==
    CASE c.Type = ConstraintTypePrimaryKey -> [col EXCEPT !.IsPrimary = TRUE]
      [] c.Type = ConstraintTypeForeignKey ->
            IF col.IsReference THEN col
            ELSE [col EXCEPT !.IsReference = TRUE,
                             !.ForeignTablename = c.ForeignTablename,
                             !.ForeignColumnname = c.ForeignColumnname]
      [] c.Type = ConstraintTypeUnique -> [col EXCEPT !.IsUnique = TRUE]
      [] OTHER -> col

\* The switch on c.Type.
ApplyConstraintType(col, c) ==
    CASE c.Type = ConstraintTypePrimaryKey -> [col EXCEPT !.IsPrimary = TRUE]
      [] c.Type = ConstraintTypeForeignKey ->
            [col EXCEPT !.IsReference = TRUE,
                        !.ForeignTablename = c.ForeignTablename,
                        !.ForeignColumnname = c.ForeignColumnname]
      [] c.Type = ConstraintTypeUnique -> [col EXCEPT !.IsUnique = TRUE]
      [] OTHER -> col

\* One iteration of the loop over the constraints.
ReferenceOne(byName, c) ==
    IF c.Columnname \notin DOMAIN byName
    THEN byName
    ELSE LET col == byName[c.Columnname]
             att == [col EXCEPT !.Constraints = Append(col.Constraints, c)]
         IN  [byName EXCEPT ![c.Columnname] = ApplyConstraintType(att, c)]

RECURSIVE refrenceConstraints(_, _)
refrenceConstraints(byName, cs) ==
    IF cs = <<>> THEN byName
    ELSE refrenceConstraints(ReferenceOne(byName, Head(cs)), Tail(cs))

\* A slip in the less function: the comparison is turned round.
LessDescending(a, b) == a.OrdinalPosition > b.OrdinalPosition

\* sort.Slice's less function.
Less(a, b) == a.OrdinalPosition < b.OrdinalPosition

\* s is what sort.Slice may leave: no element is less than one before it.
IsSortedBy(s) == \A i, j \in DOMAIN s : i < j => ~Less(s[j], s[i])

\* The sequences that list every member of the set S once.
Listings(S) ==
    {s \in [1..Cardinality(S) -> S] : \A i, j \in DOMAIN s : i # j => s[i] # s[j]}

\* A slip: the columns are appended in map order and never sorted.
SortedColumnsUnsorted(byName) == Listings(Range(byName))

\* table.Columns after ranging over the map (any order) and sort.Slice (not
\* stable): any listing of the map's values that the less function accepts.
SortedColumns(byName) == {s \in Listings(Range(byName)) : IsSortedBy(s)}

---------------------------------------------------------------------------
(* The rows the catalog may deliver *)

ColRow(ord, name, raw, elem) ==
    [ ordinalPosition        |-> ord,
      columnName             |-> name,
      columnDefault          |-> Null,
      isNullable             |-> "NO",
      datatypeRaw            |-> raw,
      elementArraytypeRaw    |-> elem,
      elementUdtSchema       |-> IF elem = "USER-DEFINED" THEN "public" ELSE Null,
      elementUdtName         |-> IF elem = "USER-DEFINED" THEN "mood" ELSE Null,
      characterMaximumLength |-> <<>>,
      udtSchema              |-> IF raw = "USER-DEFINED" THEN "public" ELSE "pg_catalog",
      udtName                |-> IF raw = "USER-DEFINED" THEN "mood" ELSE "int4",
      comments               |-> Null ]

ConRow(name, type, col, ftable, fcol) ==
    [ constraintname    |-> name,
      constrainttype    |-> type,
      columnname        |-> col,
      foreignTablename  |-> ftable,
      foreignColumnname |-> fcol ]

\* Column rows of the table under assembly: two names, two ordinal positions.
TableColRows ==
    {ColRow(o, n, "integer", Null) : o \in {1, 2}, n \in {"id", "role_id"}}

\* Constraint rows of the table "users".  For a primary key or a unique
\* constraint constraint_column_usage names the constrained column itself; it
\* is NULL when the role does not own the table, as key_column_usage's column
\* may be.  "ghost" is a column the table does not have.
ConRowSet ==
    {ConRow("users_role_fk", "FOREIGN KEY", c, t, "id") :
        c \in {"role_id", "ghost"}, t \in {"roles", "teams"}}
    \cup {ConRow("users_pkey", "PRIMARY KEY", "id", "users", "id"),
          ConRow("users_pkey", "PRIMARY KEY", "id", Null, Null),
          ConRow("users_pkey", "PRIMARY KEY", Null, "users", "id"),
          ConRow("users_id_key", "UNIQUE", "id", "users", "id"),
          ConRow("users_role_key", "UNIQUE", "role_id", "users", "role_id"),
          ConRow("users_check", "CHECK", "id", "users", "id")}

NoRows == [rows |-> <<>>, end |-> "eof"]

---------------------------------------------------------------------------
(* parseTable, statement by statement *)

Idle ==
    /\ colRows = NoRows
    /\ cols = [status |-> "none", cols |-> <<>>, err |-> ""]
    /\ catalog = [tables |-> <<>>, columns |-> <<>>, constraints |-> <<>>, enums |-> <<>>]
    /\ schema = [Tables |-> <<>>, Enums |-> <<>>]
    /\ ret = "none"
    /\ fault = [query |-> "none", kind |-> "eof", at |-> 0, table |-> 0]
    /\ got = [tables |-> <<>>, enums |-> <<>>, enumsRan |-> FALSE, repeat |-> FALSE]

InitTable ==
    /\ pc = "columns"
    /\ table = [Name |-> "users", Columns |-> <<>>, ColumnsByName |-> <<>>]
    /\ constraints = <<>>
    /\ conRows = NoRows
    /\ err = ""
    /\ Idle

\* cols, err := a.parseTableColumns(ctx, tablename); table.ColumnsByName = ...
ParseTableColumns ==
    /\ pc = "columns"
    /\ \E rs \in ResultSets(TableColRows, MaxColRows) :
          LET o == parseTableColumns(rs)
          IN  /\ pc' = CASE o.status = "ok"  -> "constraints"
                         [] o.status = "err" -> "error"
                         [] OTHER            -> "panic"
              /\ err' = o.err
              /\ table' = IF o.status = "ok"
                          THEN [table EXCEPT !.ColumnsByName = ColumnsByNameOf(o.cols)]
                          ELSE table
    /\ UNCHANGED <<constraints, conRows, colRows, cols, catalog, schema, ret, fault, got>>

\* constraints, err := a.parseTableConstraints(ctx, tablename)
ParseTableConstraints ==
    /\ pc = "constraints"
    /\ \E rs \in ResultSets(ConRowSet, MaxConRows) :
          LET o == parseTableConstraints(table.Name, rs)
          IN  /\ conRows' = rs
              /\ pc' = CASE o.status = "ok"  -> "reference"
                         [] o.status = "err" -> "error"
                         [] OTHER            -> "panic"
              /\ err' = o.err
              /\ constraints' = o.constraints
    /\ UNCHANGED <<table, colRows, cols, catalog, schema, ret, fault, got>>

\* a.refrenceConstraints(ctx, table, constraints): it never fails
RefrenceConstraints ==
    /\ pc = "reference"
    /\ table' = [table EXCEPT !.ColumnsByName = refrenceConstraints(@, constraints)]
    /\ pc' = "sort"
    /\ UNCHANGED <<constraints, conRows, colRows, err, cols, catalog, schema, ret, fault, got>>

\* for _, col := range table.ColumnsByName {append}; sort.Slice; return table, nil
SortColumns ==
    /\ pc = "sort"
    /\ \E s \in SortedColumns(table.ColumnsByName) :
          table' = [table EXCEPT !.Columns = s]
    /\ pc' = "done"
    /\ UNCHANGED <<constraints, conRows, colRows, err, cols, catalog, schema, ret, fault, got>>

NextTable ==
    \/ ParseTableColumns
    \/ ParseTableConstraints
    \/ RefrenceConstraints
    \/ SortColumns

SpecTable == InitTable /\ [][NextTable]_vars

---------------------------------------------------------------------------
(* Claims about the assembled Table *)

Returned == pc = "done"

ColumnsOf(t) == Range(t.Columns) \cup Range(t.ColumnsByName)

HasType(col, type) == \E i \in DOMAIN col.Constraints : col.Constraints[i].Type = type

\* C1: in every Table parseTable returns without error, Columns is ordered by
\* non-decreasing OrdinalPosition and holds exactly the columns that are the
\* values of ColumnsByName: the same columns, each once.
C1_ColumnsSortedAndConsistent ==
    Returned =>
        /\ \A i \in 1..(Len(table.Columns) - 1) :
              table.Columns[i].OrdinalPosition <= table.Columns[i + 1].OrdinalPosition
        /\ Range(table.Columns) = Range(table.ColumnsByName)
        /\ Len(table.Columns) = Cardinality(DOMAIN table.ColumnsByName)
        /\ \A n \in DOMAIN table.ColumnsByName : table.ColumnsByName[n].Name = n

\* A returned Table of two columns, delivered with the higher ordinal position
\* under the name that a map ordered by name would list first.
C1_Witness ==
    /\ Returned
    /\ Len(table.Columns) = 2
    /\ table.Columns[1].Name = "role_id"
    /\ table.Columns[1].OrdinalPosition < table.Columns[2].OrdinalPosition
    /\ table.Columns[2].Constraints # <<>>

\* C2: for every column of a returned Table the derived flags agree with the
\* attached constraints: IsPrimary exactly when a primary-key constraint naming
\* the column is attached, IsUnique exactly when a unique constraint is,
\* IsReference exactly when a foreign-key constraint is.
C2_FlagsAgreeWithConstraints ==
    Returned =>
        \A col \in ColumnsOf(table) :
            /\ col.IsPrimary <=>
                  \E i \in DOMAIN col.Constraints :
                      /\ col.Constraints[i].Type = ConstraintTypePrimaryKey
                      /\ col.Constraints[i].Columnname = col.Name
            /\ col.IsUnique <=> HasType(col, ConstraintTypeUnique)
            /\ col.IsReference <=> HasType(col, ConstraintTypeForeignKey)

\* A returned Table with a unique column that is not primary and a referencing
\* column that is neither.
C2_Witness ==
    /\ Returned
    /\ \E a, b \in Range(table.Columns) :
          /\ a.IsUnique /\ ~a.IsPrimary /\ ~a.IsReference
          /\ b.IsReference /\ ~b.IsUnique /\ ~b.IsPrimary

\* The foreign-key constraints attached to a column, in attachment order.
ForeignKeysOf(col) ==
    SelectSeq(col.Constraints, LAMBDA c : c.Type = ConstraintTypeForeignKey)

\* C3 as claimed: for every column with IsReference, the foreign names are
\* non-empty and equal those of every foreign-key constraint attached to it.
C3_ForeignNamesEqualEveryForeignKey ==
    Returned =>
        \A col \in ColumnsOf(table) :
            col.IsReference =>
                /\ col.ForeignTablename # "" /\ col.ForeignColumnname # ""
                /\ \A i \in DOMAIN ForeignKeysOf(col) :
                      /\ col.ForeignTablename = ForeignKeysOf(col)[i].ForeignTablename
                      /\ col.ForeignColumnname = ForeignKeysOf(col)[i].ForeignColumnname

\* C3 as amended: for every column with IsReference, the foreign names are
\* non-empty and equal those of the foreign-key constraint attached last to
\* the column (the last such row the catalog delivered).
C3_ForeignNamesEqualLastForeignKey ==
    Returned =>
        \A col \in ColumnsOf(table) :
            col.IsReference =>
                LET fks == ForeignKeysOf(col)
                IN  /\ fks # <<>>
                    /\ col.ForeignTablename # "" /\ col.ForeignColumnname # ""
                    /\ col.ForeignTablename = fks[Len(fks)].ForeignTablename
                    /\ col.ForeignColumnname = fks[Len(fks)].ForeignColumnname

\* A returned column with two foreign keys that name different tables.
C3_Witness ==
    /\ Returned
    /\ \E col \in Range(table.Columns) :
          /\ col.IsReference
          /\ Len(ForeignKeysOf(col)) = 2
          /\ ForeignKeysOf(col)[1].ForeignTablename # ForeignKeysOf(col)[2].ForeignTablename

\* C9 as claimed: every Constraint parseTableConstraints returns whose type is
\* not foreign-key has empty ForeignTablename and ForeignColumnname.
C9_ForeignNamesOnlyOnForeignKeys ==
    pc \in {"reference", "sort", "done"} =>
        \A i \in DOMAIN constraints :
            constraints[i].Type # ConstraintTypeForeignKey =>
                /\ constraints[i].ForeignTablename = ""
                /\ constraints[i].ForeignColumnname = ""

\* The columns as parseTableColumns left them: no constraint attached, no
\* derived flag set.
Unreferenced(byName) ==
    [n \in DOMAIN byName |->
        [byName[n] EXCEPT !.Constraints = <<>>,
                          !.IsPrimary = FALSE,
                          !.IsUnique = FALSE,
                          !.IsReference = FALSE,
                          !.ForeignTablename = "",
                          !.ForeignColumnname = ""]]

\* The constraint row names no column of the table (or no column at all).
Orphaned(r) == r.columnname \notin DOMAIN table.ColumnsByName

\* The delivered constraint result set without its orphaned rows.
WithoutOrphans == [conRows EXCEPT !.rows = SelectSeq(@, LAMBDA r : ~Orphaned(r))]

\* C10 as claimed: when the catalog delivers constraint rows whose column is
\* not among the table's columns (a row with no column name included), the
\* table assembly ends as it would have ended without those rows: where that
\* succeeds it succeeds, no orphaned constraint is attached, and every
\* column's constraints and flags are those the other rows alone produce.
C10_OrphansSilentlyDropped ==
    LET o == parseTableConstraints(table.Name, WithoutOrphans)
    IN  ((\E i \in DOMAIN conRows.rows : Orphaned(conRows.rows[i])) /\ o.status = "ok") =>
            /\ pc \notin {"error", "panic"}
            /\ Returned =>
                  table.ColumnsByName =
                      refrenceConstraints(Unreferenced(table.ColumnsByName), o.constraints)

---------------------------------------------------------------------------
(* parseTableColumns alone, on rows of every kind of type *)

RawTypes == {"integer", "ARRAY", "USER-DEFINED", "xml"}

ElementTypes == {Null, "integer", "ARRAY", "USER-DEFINED", "xml"}

\* One column name, every raw type with every element type string.
TypedColRows == {ColRow(1, "tags", raw, elem) : raw \in RawTypes, elem \in ElementTypes}

InitColumns ==
    /\ pc = "scan"
    /\ table = [Name |-> "users", Columns |-> <<>>, ColumnsByName |-> <<>>]
    /\ constraints = <<>>
    /\ conRows = NoRows
    /\ err = ""
    /\ Idle

\* a.parseTableColumns(ctx, tablename)
ScanColumns ==
    /\ pc = "scan"
    /\ \E rs \in ResultSets(TypedColRows, MaxColRows) :
          /\ colRows' = rs
          /\ cols' = parseTableColumns(rs)
    /\ pc' = "scanned"
    /\ UNCHANGED <<table, constraints, conRows, err, catalog, schema, ret, fault, got>>

NextColumns == ScanColumns

SpecColumns == InitColumns /\ [][NextColumns]_vars

\* C7 as claimed: a row whose raw type is the array type yields a Column with
\* IsArray, the raw type string kept, and Datatype the classification of the
\* element type string, which is never the array marker; any other row yields
\* a Column without IsArray.
C7_ArrayNeverArrayMarker ==
    cols.status = "ok" =>
        \A i \in DOMAIN cols.cols :
            LET r == colRows.rows[i]
                c == cols.cols[i]
            IN  IF r.datatypeRaw = "ARRAY"
                THEN /\ c.IsArray
                     /\ c.DatatypeRaw = r.datatypeRaw
                     /\ c.Datatype = Classify(r.elementArraytypeRaw)
                     /\ c.Datatype # DatatypeArray
                ELSE ~c.IsArray

\* C7 as amended: a row whose raw type is the array type yields a Column with
\* IsArray, the raw type string kept, and Datatype the classification of the
\* element type string: unknown when unmapped, and the array marker exactly
\* when the element type string is itself "ARRAY"; any other row yields a
\* Column without IsArray.
C7_ArrayElementClassified ==
    cols.status = "ok" =>
        /\ Len(cols.cols) = Len(colRows.rows)
        /\ \A i \in DOMAIN cols.cols :
            LET r == colRows.rows[i]
                c == cols.cols[i]
            IN  IF r.datatypeRaw = "ARRAY"
                THEN /\ c.IsArray
                     /\ c.DatatypeRaw = "ARRAY"
                     /\ c.Datatype = Classify(r.elementArraytypeRaw)
                     /\ r.elementArraytypeRaw \notin DOMAIN postgresDatatypemap
                            => c.Datatype = DatatypeUnknown
                     /\ c.Datatype = DatatypeArray <=> r.elementArraytypeRaw = "ARRAY"
                ELSE ~c.IsArray

\* An array of integer beside an array of an unmapped element type.
C7_Witness ==
    /\ cols.status = "ok"
    /\ \E i, j \in DOMAIN cols.cols :
          /\ colRows.rows[i].datatypeRaw = "ARRAY"
          /\ colRows.rows[i].elementArraytypeRaw = "integer"
          /\ cols.cols[i].IsArray /\ cols.cols[i].Datatype = DatatypeInt
          /\ colRows.rows[j].datatypeRaw = "ARRAY"
          /\ colRows.rows[j].elementArraytypeRaw = "xml"
          /\ cols.cols[j].Datatype = DatatypeUnknown

---------------------------------------------------------------------------
(* postgres.go: parseTable, Tables and Enums as functions of what the       *)
(* database delivers; part_001: ParseContext                                *)

\* The outcomes of parseTable: [status, table, err].  On an error of a step
\* the caller gets the error (and a table it ignores).
parseTable(tablename, colRs, conRs) ==
    LET t0 == [Name |-> tablename, Columns |-> <<>>, ColumnsByName |-> <<>>]
        co == parseTableColumns(colRs)
        cn == parseTableConstraints(tablename, conRs)
        byName == refrenceConstraints(ColumnsByNameOf(co.cols), cn.constraints)
    IN  IF co.status # "ok" THEN {[status |-> co.status, table |-> t0, err |-> co.err]}
        ELSE IF cn.status # "ok" THEN {[status |-> cn.status, table |-> t0, err |-> cn.err]}
        ELSE {[status |-> "ok",
               table |-> [Name |-> tablename, Columns |-> s, ColumnsByName |-> byName],
               err |-> ""] : s \in SortedColumns(byName)}

\* The failure the database injects into one call of ParseContext: none, or
\* one query (of the table-th table, for the column and constraint queries)
\* that ends by `kind` after delivering `at` rows.
NoFault == [query |-> "none", kind |-> "eof", at |-> 0, table |-> 0]

\* What the query q (of the table-th table) delivers of `rows` under fault f.
Deliver(rows, f, q, t) ==
    IF f.query = q /\ f.table = t
    THEN [rows |-> SubSeq(rows, 1, f.at), end |-> f.kind]
    ELSE [rows |-> rows, end |-> "eof"]

\* The row loop of Tables from the i-th delivered table name on, `acc` being
\* the tables appended so far: the set of outcomes [status, tables, err].
RECURSIVE TablesFrom(_, _, _, _, _)
TablesFrom(cat, f, rs, i, acc) ==
    IF i > Len(rs.rows)
    THEN IF rs.end = "scanErr"
         THEN {[status |-> "err", tables |-> <<>>, err |-> ErrScan]}
         ELSE {[status |-> "ok", tables |-> acc, err |-> ""]}
    ELSE IF rs.rows[i] = Null
    THEN {[status |-> "panic", tables |-> <<>>, err |-> ""]}
    ELSE UNION {IF o.status = "ok"
                THEN TablesFrom(cat, f, rs, i + 1, Append(acc, o.table))
                ELSE {[status |-> o.status, tables |-> <<>>, err |-> o.err]} :
                    o \in parseTable(rs.rows[i],
                                     Deliver(cat.columns, f, "columns", i),
                                     Deliver(cat.constraints, f, "constraints", i))}

\* The outcomes of Tables.
Tables(cat, f) ==
    LET rs == Deliver(cat.tables, f, "tables", 0)
    IN  IF rs.end = "queryErr"
        THEN {[status |-> "err", tables |-> <<>>, err |-> ErrQuery]}
        ELSE TablesFrom(cat, f, rs, 1, <<>>)

\* One iteration of the row loop of Enums on the scanned row r.
EnumsByNameAdd(byName, r) ==
    LET v == [Label |-> r.label, Order |-> r.order]
    IN  IF r.name \in DOMAIN byName
        THEN [byName EXCEPT ![r.name].Values = Append(@, v)]
        ELSE (r.name :> [Name |-> r.name, Values |-> <<v>>]) @@ byName

RECURSIVE EnumsByName(_)
EnumsByName(rows) ==
    IF rows = <<>> THEN <<>>
    ELSE EnumsByNameAdd(EnumsByName(SubSeq(rows, 1, Len(rows) - 1)), rows[Len(rows)])

\* The outcomes of Enums on the result set rs: [status, enums, err]; the
\* slice is filled by ranging over the map, in any order.
Enums(rs) ==
    IF rs.end = "queryErr" THEN {[status |-> "err", enums |-> <<>>, err |-> ErrQuery]}
    ELSE IF rs.end = "scanErr" THEN {[status |-> "err", enums |-> <<>>, err |-> ErrScan]}
    ELSE {[status |-> "ok", enums |-> s, err |-> ""] :
              s \in Listings(Range(EnumsByName(rs.rows)))}

\* A slip: the tables of the call are appended to those the Schema holds.
StoreTablesAppend(s, tables) == [s EXCEPT !.Tables = @ \o tables]

\* s.Tables, err = s.adapter.Tables(ctx)
StoreTables(s, tables) == [s EXCEPT !.Tables = tables]

\* s.Enums, err = s.adapter.Enums(ctx)
StoreEnums(s, enums) == [s EXCEPT !.Enums = enums]

\* The outcomes of ParseContext on the Schema s: [ret, schema, got].  ret is
\* "nil", the error returned, or "panic"; got is what the adapter returned.
ParseContextOutcomes(cat, f, s) ==
    UNION {
        CASE t.status = "panic" ->
                {[ret |-> "panic", schema |-> s,
                  got |-> [tables |-> <<>>, enums |-> <<>>, enumsRan |-> FALSE, repeat |-> FALSE]]}
          [] t.status = "err" ->
                {[ret |-> t.err, schema |-> StoreTables(s, t.tables),
                  got |-> [tables |-> t.tables, enums |-> <<>>, enumsRan |-> FALSE, repeat |-> FALSE]]}
          [] OTHER ->
                {[ret |-> IF e.status = "err" THEN e.err ELSE "nil",
                  schema |-> StoreEnums(StoreTables(s, t.tables), e.enums),
                  got |-> [tables |-> t.tables, enums |-> e.enums, enumsRan |-> TRUE, repeat |-> FALSE]] :
                      e \in Enums(Deliver(cat.enums, f, "enums", 0))} :
        t \in Tables(cat, f)}

---------------------------------------------------------------------------
(* ParseContext, call after call, on a catalog that does not change *)

MaxCatalogRows == 2

\* The sequences of at most n distinct members of S.
DistinctSeqsUpTo(S, n) ==
    {s \in SeqsUpTo(S, n) : \A i, j \in DOMAIN s : i # j => s[i] # s[j]}

EnumRow(name, order, label) == [name |-> name, order |-> order, label |-> label]

SchemaColRows ==
    {ColRow(1, "id", "integer", Null), ColRow(1, "role_id", "integer", Null),
     ColRow(2, "role_id", "integer", Null)}

EnumRows ==
    {EnumRow("status", 0, "pending"), EnumRow("status", 1, "done"),
     EnumRow("mood", 0, "happy")}

\* The catalogs: no table or the table "users", its column rows in any order,
\* its primary key, and the enum rows in any order.
Catalogs ==
    [ tables      : {<<>>, <<"users">>},
      columns     : DistinctSeqsUpTo(SchemaColRows, MaxCatalogRows),
      constraints : {<<ConRow("pkey", "PRIMARY KEY", "id", "users", "id")>>},
      enums       : DistinctSeqsUpTo(EnumRows, MaxCatalogRows) ]

\* The faults that hit a query ParseContext issues on the catalog.
FaultPlans(cat) ==
    LET plans(q, t, rows) ==
            {[query |-> q, kind |-> "queryErr", at |-> 0, table |-> t]}
            \cup {[query |-> q, kind |-> k, at |-> a, table |-> t] :
                      k \in {"scanErr", "iterErr"}, a \in 0..Len(rows)}
    IN  {NoFault}
        \cup plans("tables", 0, cat.tables)
        \cup plans("enums", 0, cat.enums)
        \cup UNION {plans("columns", t, cat.columns) \cup
                    plans("constraints", t, cat.constraints) : t \in DOMAIN cat.tables}

InitSchema ==
    /\ pc = "idle"
    /\ table = [Name |-> "", Columns |-> <<>>, ColumnsByName |-> <<>>]
    /\ constraints = <<>>
    /\ conRows = NoRows
    /\ colRows = NoRows
    /\ err = ""
    /\ cols = [status |-> "none", cols |-> <<>>, err |-> ""]
    /\ catalog \in Catalogs
    /\ schema = [Tables |-> <<>>, Enums |-> <<>>]
    /\ ret = "none"
    /\ fault = NoFault
    /\ got = [tables |-> <<>>, enums |-> <<>>, enumsRan |-> FALSE, repeat |-> FALSE]

\* One call of s.ParseContext(ctx); a panic ends the program.
ParseContext ==
    /\ ret # "panic"
    /\ \E f \in FaultPlans(catalog) :
          \E o \in ParseContextOutcomes(catalog, f, schema) :
              /\ schema' = o.schema
              /\ ret' = o.ret
              /\ got' = [o.got EXCEPT !.repeat = (ret = "nil" /\ f = fault)]
              /\ fault' = f
    /\ UNCHANGED <<pc, table, constraints, conRows, colRows, err, cols, catalog>>

NextSchema == ParseContext

SpecSchema == InitSchema /\ [][NextSchema]_vars

---------------------------------------------------------------------------
(* Claims about ParseContext *)

\* EnumValues in ascending Order.
ValuesInOrder(enum) ==
    \A i \in 1..(Len(enum.Values) - 1) : enum.Values[i].Order <= enum.Values[i + 1].Order

\* C4 as claimed: the Values of every Enum that Enums returns are in ascending
\* catalog sort order, whatever the order in which the catalog delivers the rows.
C4_EnumValuesInSortOrder ==
    (ret = "nil" /\ fault = NoFault) =>
        \A i \in DOMAIN schema.Enums : ValuesInOrder(schema.Enums[i])

\* The error rows.Err() reports after an iteration that failed.
ErrRows == "rows iteration failed"

\* The error of the failure the database injected.
FaultError(f) ==
    CASE f.kind = "queryErr" -> ErrQuery
      [] f.kind = "scanErr"  -> ErrScan
      [] f.kind = "iterErr"  -> ErrRows

\* C5 as claimed: when a catalog query fails to execute, fails while its rows
\* are iterated, or a row fails to decode, ParseContext does not return nil:
\* it returns that error.
C5_FailureIsReturned ==
    (ret # "none" /\ fault # NoFault) => (ret # "nil" /\ ret = FaultError(fault))

\* The Schema with the order of its Enums list normalized away.
Normalized(s) == [Tables |-> s.Tables, Enums |-> Range(s.Enums)]

\* C6 as claimed: a successful ParseContext that follows a successful one on
\* the unchanged catalog, the same rows delivered, leaves a Schema equal to
\* the one before, up to the order of Enums.
C6_RepeatedParseEqual ==
    [][(ret = "nil" /\ ret' = "nil" /\ fault' = fault)
          => Normalized(schema') = Normalized(schema)]_vars

\* No two column rows of different names carry the same ordinal position.
NoOrdinalTies(rows) ==
    \A i, j \in DOMAIN rows :
        rows[i].columnName # rows[j].columnName
            => rows[i].ordinalPosition # rows[j].ordinalPosition

\* C6 as amended: the same, provided no two columns of a table carry the same
\* ordinal position (columns that tie come out in either order).
C6_RepeatedParseEqualWithoutTies ==
    [][(ret = "nil" /\ ret' = "nil" /\ fault' = fault /\ NoOrdinalTies(catalog.columns))
          => Normalized(schema') = Normalized(schema)]_vars

\* A successful call repeated on a catalog of two enums and of two columns
\* delivered against their ordinal positions.
C6_Witness ==
    /\ ret = "nil" /\ got.repeat /\ fault = NoFault
    /\ NoOrdinalTies(catalog.columns)
    /\ Len(catalog.columns) = 2
    /\ catalog.columns[1].ordinalPosition > catalog.columns[2].ordinalPosition
    /\ Len(schema.Tables) = 1
    /\ Len(schema.Tables[1].Columns) = 2
    /\ Len(schema.Enums) = 2

\* C8 as claimed: after every call of ParseContext, failed or not, Tables and
\* Enums hold what that call extracted and nothing of an earlier call.
C8_EveryCallReplaces ==
    ret \notin {"none", "panic"} =>
        /\ schema.Tables = got.tables
        /\ schema.Enums = got.enums

\* C8 as amended: every call of ParseContext that returns leaves in Tables
\* what its table step returned, and in Enums what its enum step returned if
\* that step ran, as it does in every successful call; a call whose table
\* step fails leaves Enums as it was.
C8_CallReplacesWhatItExtracts ==
    [][ret' # "panic" =>
          /\ schema'.Tables = got'.tables
          /\ IF got'.enumsRan
               THEN schema'.Enums = got'.enums
               ELSE schema'.Enums = schema.Enums
          /\ ret' = "nil" => got'.enumsRan]_vars

\* A call whose table query failed after a successful call: Tables is
\* emptied and the enums of the earlier call remain.
C8_Witness ==
    /\ ret = ErrQuery /\ fault.query = "tables"
    /\ ~got.enumsRan
    /\ schema.Tables = <<>>
    /\ Len(schema.Enums) = 2

=============================================================================
